---- MODULE Spec2Model ----
(***************************************************************************)
(* A model of the two ETL functions of the YouTube analytics pipeline:     *)
(*                                                                         *)
(*   src/src/ingestion/Ingestion.py          lambda_handler: read a JSON   *)
(*        object named by an S3 event, flatten its "items" array, write    *)
(*        the flat frame to the cleansed dataset and the catalog.          *)
(*   src/src/transformation/Transformation.py  the Glue job script: read   *)
(*        raw_statistics under a partition predicate, ApplyMapping,        *)
(*        ResolveChoice, DropNullFields, coalesce(1), partitioned write,   *)
(*        job.commit().                                                    *)
(*                                                                         *)
(* The library calls (awswrangler, pandas, awsglue) are modelled by what   *)
(* they do to the frames and to the stores; every call may also fail, as   *)
(* a call into a remote service can.  The two functions share no state:    *)
(* a behaviour runs one of them (variable fn).                             *)
(***************************************************************************)
EXTENDS Integers, Sequences, FiniteSets, TLC

\* Bounds of the model.
MaxItems == 2          \* longest "items" array of a stored document
MaxRecords == 2        \* most records in one trigger event
MaxInvocations == 2    \* invocations of lambda_handler in one behaviour
MaxRows == 3           \* most rows of the raw_statistics table

VARIABLES
    fn,            \* the function this behaviour runs: "ingestion" or "transformation"
    \* ---- Ingestion.py
    store,         \* raw bucket: decoded object key -> document
    WRITE_MODE,    \* os.environ['write_data_operation']
    event,         \* event['Records'] of the running invocation
    bucket, key,   \* locals of lambda_handler
    lpc,           \* position of lambda_handler
    df_raw, df_flat,
    target,        \* rows of the dataset under S3_CLEANSED_PATH
    catalog,       \* columns of the Glue table GLUE_DB_NAME.GLUE_TABLE_NAME
    lambdaLog,     \* lines printed by the running invocation
    write_response,\* what the invocation returned ("" when it did not return)
    raised,        \* the exception the invocation ended with ("" when none)
    calls,         \* library calls of the running invocation, in order
    readPaths,     \* the paths handed to wr.s3.read_json by the running invocation
    writeArgs,     \* the frames and modes handed to wr.s3.to_parquet by it
    hist,          \* finished invocations: the object each named, how it ended,
                   \* and the dataset it found
    preTarget, preCatalog,  \* target and catalog when the running invocation began
    \* ---- Transformation.py
    rawTable,      \* rows of the catalog table de_youtube_raw.raw_statistics
    jpc,           \* position of the job script
    raw_dyf, mapped_dyf, resolved_dyf, clean_dyf, final_dyf,
    datasink,      \* TARGET_S3_PATH: partition value -> rows written under it
    committed,     \* job.commit() has run
    jobTrace,      \* the steps of the script that have completed, in order
    jobFailedAt,   \* the step whose call raised ("" when none)
    jobLog         \* lines printed by the script

lambdaVars == <<store, WRITE_MODE, event, bucket, key, lpc, df_raw, df_flat, target,
                catalog, lambdaLog, write_response, raised, calls, readPaths,
                writeArgs, hist, preTarget, preCatalog>>

jobVars == <<rawTable, jpc, raw_dyf, mapped_dyf, resolved_dyf, clean_dyf, final_dyf,
             datasink, committed, jobTrace, jobFailedAt, jobLog>>

vars == <<fn, lambdaVars, jobVars>>

(***************************************************************************)
(* Frames.  A frame is a set of columns and a sequence of rows, each row a *)
(* function from the columns to cell values.                               *)
(***************************************************************************)
EmptyFrame == [columns |-> {}, rows |-> <<>>]

Range(s) == {s[i] : i \in 1..Len(s)}

RECURSIVE SeqsUpTo(_, _)
SeqsUpTo(S, n) ==
    IF n = 0 THEN {<<>>}
    ELSE LET shorter == SeqsUpTo(S, n - 1)
         IN shorter \cup {Append(s, x) : s \in {t \in shorter : Len(t) = n - 1}, x \in S}

(***************************************************************************)
(* JSON documents of the raw bucket.  A JSON object is a sequence of       *)
(* entries; an entry is a scalar (t = "s", value v) or a nested object     *)
(* (t = "d", entries d).                                                   *)
(***************************************************************************)
Scalar(k, v) == [k |-> k, t |-> "s", v |-> v, d |-> <<>>]
Nested(k, d) == [k |-> k, t |-> "d", v |-> "", d |-> d]

ItemFilm  == << Scalar("id", "1"),
                Nested("snippet", << Scalar("title", "Film"),
                                     Scalar("assignable", "true") >>) >>
ItemMusic == << Scalar("kind", "youtube#videoCategory"),
                Scalar("id", "10"),
                Nested("snippet", << Scalar("title", "Music") >>) >>
ItemPool  == {ItemFilm, ItemMusic}

\* A document: well-formed JSON whose one array is named "items" or something
\* else, or bytes that do not parse.
JsonDoc(name, arr) == [tag |-> "json", arrName |-> name, arr |-> arr]
CorruptDoc == [tag |-> "corrupt", arrName |-> "", arr |-> <<>>]
AbsentDoc  == [tag |-> "absent", arrName |-> "", arr |-> <<>>]
DocPool ==
    {JsonDoc("items", a) : a \in SeqsUpTo(ItemPool, MaxItems)}
        \cup {JsonDoc("other", <<ItemMusic>>), CorruptDoc}

(***************************************************************************)
(* Object keys.  The event carries the key URL-encoded; a key is modelled  *)
(* as a sequence of tokens, each one character or one escape.              *)
(***************************************************************************)
EncodedKeys == { <<"a", "+", "b">>, <<"a", "%2B", "b">> }
StoreKeys   == { "a b", "a+b" }
Buckets     == { "raw" }

\* urllib.parse.unquote_plus on one token: '+' is a space, %XX is the character.
UnquoteToken(t) ==
    CASE t = "+"   -> " "
      [] t = "%2B" -> "+"
      [] t = "%20" -> " "
      [] OTHER     -> t

RECURSIVE unquote_plus(_)
unquote_plus(k) ==
    IF k = <<>> THEN "" ELSE UnquoteToken(Head(k)) \o unquote_plus(Tail(k))

Record(b, k) == [bucket |-> b, key |-> k]
EventPool ==
    {e \in SeqsUpTo({Record(b, k) : b \in Buckets, k \in EncodedKeys}, MaxRecords) :
        Len(e) >= 1}

S3Path(b, k) == "s3://" \o b \o "/" \o k

\* The object at a path of the raw bucket (AbsentDoc: the bucket holds none).
ObjectAt(b, k) == IF k \in DOMAIN store THEN store[k] ELSE AbsentDoc

\* The raw bucket: the object "a b" is any document of the pool; the object
\* "a+b" is a one-item document, or was deleted before the handler ran.
StorePool ==
    {[k \in StoreKeys |-> IF k = "a b" THEN d ELSE o] :
        d \in DocPool, o \in {JsonDoc("items", <<ItemMusic>>), AbsentDoc}}

(***************************************************************************)
(* wr.s3.read_json: the document as a frame.  Scalars are broadcast over   *)
(* the array's length, so the frame has one row per array element.         *)
(***************************************************************************)
read_json(doc) ==
    LET cols == {"kind", "etag", doc.arrName}
    IN [columns |-> cols,
        rows |-> [i \in 1..Len(doc.arr) |->
                    [c \in cols |-> IF c = doc.arrName THEN doc.arr[i] ELSE "meta"]]]

ReadError(doc) ==
    CASE doc.tag = "absent"  -> "NoFilesFound"
      [] doc.tag = "corrupt" -> "ValueError"
      [] OTHER               -> ""

(***************************************************************************)
(* pd.json_normalize: each element of the series becomes one row; nested   *)
(* objects are flattened to columns named parent.child; a row that lacks   *)
(* a column of another row holds NaN there.                                *)
(***************************************************************************)
\* Mutant of nested_to_record: max_level=0, nested objects are not flattened.
nested_to_record_max_level_0(d, prefix) ==
    [i \in 1..Len(d) |->
        [c |-> prefix \o d[i].k, v |-> IF d[i].t = "s" THEN d[i].v ELSE "dict"]]

RECURSIVE nested_to_record(_, _)
nested_to_record(d, prefix) ==
    IF d = <<>> THEN <<>>
    ELSE LET e == Head(d)
             name == prefix \o e.k
         IN (IF e.t = "s"
             THEN << [c |-> name, v |-> e.v] >>
             ELSE nested_to_record(e.d, name \o "."))
            \o nested_to_record(Tail(d), prefix)

json_normalize(series) ==
    LET flat == [i \in 1..Len(series) |-> nested_to_record(series[i], "")]
        cols == UNION {{flat[i][j].c : j \in 1..Len(flat[i])} : i \in 1..Len(series)}
        cell(i, c) ==
            IF \E j \in 1..Len(flat[i]) : flat[i][j].c = c
            THEN flat[i][CHOOSE j \in 1..Len(flat[i]) : flat[i][j].c = c].v
            ELSE "NaN"
    IN [columns |-> cols,
        rows |-> [i \in 1..Len(series) |-> [c \in cols |-> cell(i, c)]]]

\* df_raw['items']
ItemsColumn(df) == [i \in 1..Len(df.rows) |-> df.rows[i]["items"]]

(***************************************************************************)
(* wr.s3.to_parquet(dataset=True, mode=...): "overwrite" deletes what the  *)
(* path holds and writes the frame; "append" adds the frame to it.  An     *)
(* empty frame is refused before anything is touched.                      *)
(***************************************************************************)
WriteModes == {"append", "overwrite"}

\* Mutant of WrittenTarget: the mode is ignored and every write appends.
WrittenTargetAlwaysAppend(df, mode, tgt) == tgt \o df.rows

WrittenTarget(df, mode, tgt) ==
    IF mode = "append" THEN tgt \o df.rows ELSE df.rows

WrittenCatalog(df, mode, cat) ==
    IF mode = "append" THEN cat \cup df.columns ELSE df.columns

\* What a failed write can leave under the path: nothing changed, the old
\* objects deleted (overwrite), or the new files written with the catalog
\* update lost.
FailedWriteTargets(df, mode, tgt) ==
    IF df.rows = <<>> THEN {tgt}
    ELSE {tgt, WrittenTarget(df, mode, tgt)}
            \cup (IF mode = "append" THEN {} ELSE {<<>>})

\* What the cleansed dataset may hold before the first invocation: nothing, or
\* a row of an earlier load.
PriorFrame == [columns |-> {"id"}, rows |-> << [c \in {"id"} |-> "99"] >>]

WriteError(df) == IF df.rows = <<>> THEN "EmptyDataFrame" ELSE "ClientError"

(***************************************************************************)
(* lambda_handler                                                          *)
(***************************************************************************)
Call(op, ok) == [op |-> op, ok |-> ok]

\* Mutant of ExceptHandler: the exception is logged and swallowed.
ExceptHandlerSwallow(e) ==
    /\ lambdaLog' = lambdaLog \o
            << "Exception encountered while processing " \o key
                    \o " from bucket " \o bucket,
               e >>
    /\ raised' = ""
    /\ write_response' = "None"
    /\ lpc' = "returned"
    /\ hist' = Append(hist, [key |-> key, ok |-> FALSE, before |-> preTarget])

\* Lines 88-95: print two lines, raise e.
ExceptHandler(e) ==
    /\ lambdaLog' = lambdaLog \o
            << "Exception encountered while processing " \o key
                    \o " from bucket " \o bucket,
               e >>
    /\ raised' = e
    /\ write_response' = ""
    /\ lpc' = "raised"
    /\ hist' = Append(hist, [key |-> key, ok |-> FALSE, before |-> preTarget])

\* Mutant of Invoke: the handler takes the last record of the event.
InvokeLastRecord(ev) ==
    /\ fn = "ingestion"
    /\ lpc \in {"idle", "returned", "raised"}
    /\ Len(hist) < MaxInvocations
    /\ event' = ev
    /\ bucket' = ev[Len(ev)].bucket
    /\ key' = unquote_plus(ev[Len(ev)].key)
    /\ lpc' = "read"
    /\ df_raw' = EmptyFrame
    /\ df_flat' = EmptyFrame
    /\ lambdaLog' = <<>>
    /\ write_response' = ""
    /\ raised' = ""
    /\ calls' = <<>>
    /\ readPaths' = <<>>
    /\ writeArgs' = <<>>
    /\ preTarget' = target
    /\ preCatalog' = catalog
    /\ UNCHANGED <<jobVars, fn, store, WRITE_MODE, target, catalog, hist>>

\* The platform invokes the handler with an event; lines 46-47.
Invoke(ev) ==
    /\ fn = "ingestion"
    /\ lpc \in {"idle", "returned", "raised"}
    /\ Len(hist) < MaxInvocations
    /\ event' = ev
    /\ bucket' = ev[1].bucket
    /\ key' = unquote_plus(ev[1].key)
    /\ lpc' = "read"
    /\ df_raw' = EmptyFrame
    /\ df_flat' = EmptyFrame
    /\ lambdaLog' = <<>>
    /\ write_response' = ""
    /\ raised' = ""
    /\ calls' = <<>>
    /\ readPaths' = <<>>
    /\ writeArgs' = <<>>
    /\ preTarget' = target
    /\ preCatalog' = catalog
    /\ UNCHANGED <<jobVars, fn, store, WRITE_MODE, target, catalog, hist>>

\* Line 61, the read succeeds.
ReadOk ==
    /\ lpc = "read"
    /\ ReadError(ObjectAt(bucket, key)) = ""
    /\ df_raw' = read_json(ObjectAt(bucket, key))
    /\ readPaths' = Append(readPaths, S3Path(bucket, key))
    /\ calls' = Append(calls, Call("read", TRUE))
    /\ lpc' = "flatten"
    /\ UNCHANGED <<jobVars, fn, store, WRITE_MODE, event, bucket, key, df_flat, target, catalog,
                   lambdaLog, write_response, raised, writeArgs, hist, preTarget,
                   preCatalog>>

\* Line 61 raises: the object is missing or does not parse, or the service fails.
ReadFail ==
    /\ lpc = "read"
    /\ \E e \in {ReadError(ObjectAt(bucket, key)), "ClientError"} \ {""} :
            ExceptHandler(e)
    /\ readPaths' = Append(readPaths, S3Path(bucket, key))
    /\ calls' = Append(calls, Call("read", FALSE))
    /\ UNCHANGED <<jobVars, fn, store, WRITE_MODE, event, bucket, key, df_raw, df_flat, target,
                   catalog, writeArgs, preTarget, preCatalog>>

\* Line 68, the frame has an 'items' column.
FlattenOk ==
    /\ lpc = "flatten"
    /\ "items" \in df_raw.columns
    /\ df_flat' = json_normalize(ItemsColumn(df_raw))
    /\ calls' = Append(calls, Call("flatten", TRUE))
    /\ lpc' = "write"
    /\ UNCHANGED <<jobVars, fn, store, WRITE_MODE, event, bucket, key, df_raw, target, catalog,
                   lambdaLog, write_response, raised, readPaths, writeArgs, hist,
                   preTarget, preCatalog>>

\* Mutant of FlattenFail: a failed flatten clears the cleansed dataset.
FlattenFailClearsTarget ==
    /\ lpc = "flatten"
    /\ "items" \notin df_raw.columns
    /\ ExceptHandler("KeyError")
    /\ calls' = Append(calls, Call("flatten", FALSE))
    /\ target' = <<>>
    /\ UNCHANGED <<jobVars, fn, store, WRITE_MODE, event, bucket, key, df_raw, df_flat,
                   catalog, readPaths, writeArgs, preTarget, preCatalog>>

\* Line 68 raises KeyError: the document has no "items".
FlattenFail ==
    /\ lpc = "flatten"
    /\ "items" \notin df_raw.columns
    /\ ExceptHandler("KeyError")
    /\ calls' = Append(calls, Call("flatten", FALSE))
    /\ UNCHANGED <<jobVars, fn, store, WRITE_MODE, event, bucket, key, df_raw, df_flat, target,
                   catalog, readPaths, writeArgs, preTarget, preCatalog>>

\* Lines 76-86: the write succeeds and its response is returned.
WriteOk ==
    /\ lpc = "write"
    /\ df_flat.rows # <<>>
    /\ target' = WrittenTarget(df_flat, WRITE_MODE, target)
    /\ catalog' = WrittenCatalog(df_flat, WRITE_MODE, catalog)
    /\ writeArgs' = Append(writeArgs, [df |-> df_flat, mode |-> WRITE_MODE])
    /\ calls' = Append(calls, Call("write", TRUE))
    /\ write_response' = "paths"
    /\ lpc' = "returned"
    /\ hist' = Append(hist, [key |-> key, ok |-> TRUE, before |-> preTarget])
    /\ UNCHANGED <<jobVars, fn, store, WRITE_MODE, event, bucket, key, df_raw, df_flat,
                   lambdaLog, raised, readPaths, preTarget, preCatalog>>

\* Lines 76-83 raise.
WriteFail ==
    /\ lpc = "write"
    /\ \E t \in FailedWriteTargets(df_flat, WRITE_MODE, target) : target' = t
    /\ ExceptHandler(WriteError(df_flat))
    /\ writeArgs' = Append(writeArgs, [df |-> df_flat, mode |-> WRITE_MODE])
    /\ calls' = Append(calls, Call("write", FALSE))
    /\ UNCHANGED <<jobVars, fn, store, WRITE_MODE, event, bucket, key, df_raw, df_flat, catalog,
                   readPaths, preTarget, preCatalog>>

(***************************************************************************)
(* Transformation.py.  A cell is a typed value or null; a row is a         *)
(* function from field names to cells; a frame is a sequence of Spark      *)
(* partitions, each a sequence of rows.                                    *)
(***************************************************************************)
S(v) == [t |-> "string", v |-> v]
L(v) == [t |-> "long", v |-> v]
B(v) == [t |-> "boolean", v |-> v]
Null == [t |-> "null", v |-> ""]

\* Mutant of PREDICATE: one more region passes.
PREDICATE_with_de == {"ca", "gb", "us", "de"}

\* Line 37: push_down_predicate, "region in ('ca', 'gb', 'us')".
PREDICATE == {"ca", "gb", "us"}
\* Line 41.
PARTITION_KEYS == <<"region">>

\* Lines 61-79: (source field, source type, target field, target type).
Mappings ==
    << <<"video_id", "string", "video_id", "string">>,
       <<"trending_date", "string", "trending_date", "string">>,
       <<"title", "string", "title", "string">>,
       <<"channel_title", "string", "channel_title", "string">>,
       <<"category_id", "long", "category_id", "long">>,
       <<"publish_time", "string", "publish_time", "string">>,
       <<"tags", "string", "tags", "string">>,
       <<"views", "long", "views", "long">>,
       <<"likes", "long", "likes", "long">>,
       <<"dislikes", "long", "dislikes", "long">>,
       <<"comment_count", "long", "comment_count", "long">>,
       <<"thumbnail_link", "string", "thumbnail_link", "string">>,
       <<"comments_disabled", "boolean", "comments_disabled", "boolean">>,
       <<"ratings_disabled", "boolean", "ratings_disabled", "boolean">>,
       <<"video_error_or_removed", "boolean", "video_error_or_removed", "boolean">>,
       <<"description", "string", "description", "string">>,
       <<"region", "string", "region", "string">> >>

\* The rows of the source table.
GoodRow(r) ==
    [video_id |-> S("v1"), trending_date |-> S("17.14.11"), title |-> S("t"),
     channel_title |-> S("ch"), category_id |-> L("10"), publish_time |-> S("p"),
     tags |-> S("tg"), views |-> L("100"), likes |-> L("5"), dislikes |-> L("1"),
     comment_count |-> L("2"), thumbnail_link |-> S("u"),
     comments_disabled |-> B("false"), ratings_disabled |-> B("false"),
     video_error_or_removed |-> B("false"), description |-> S("d"), region |-> S(r)]

With(row, f, c) == [g \in DOMAIN row \cup {f} |-> IF g = f THEN c ELSE row[g]]

RowPool ==
    { GoodRow("us"),
      GoodRow("de"),
      With(GoodRow("ca"), "description", Null),
      With(With(GoodRow("gb"), "views", S("12")), "extra", S("x")),
      With(GoodRow("us"), "likes", S("abc")) }

Regions == {"ca", "gb", "us", "de"}
RegionOrder == <<"ca", "de", "gb", "us">>

RECURSIVE Concat(_)
Concat(parts) == IF parts = <<>> THEN <<>> ELSE Head(parts) \o Concat(Tail(parts))

\* Lines 48-53: the partitions of the table that satisfy the predicate, one
\* Spark partition for each.
RegionOf(row) == row["region"].v

from_catalog(table, predicate) ==
    LET part(r) == SelectSeq(table, LAMBDA row : RegionOf(row) = r)
        kept == SelectSeq(RegionOrder, LAMBDA r : r \in predicate /\ part(r) # <<>>)
    IN [p \in 1..Len(kept) |-> part(kept[p])]

\* Mutant of Cast: the value is passed through uncast.
CastNothing(cell, ty) == cell

\* A cast of ApplyMapping: a value that has no reading in the target type is null.
NumericStrings == {"1", "2", "5", "10", "12", "100"}
Cast(cell, ty) ==
    CASE cell.t = "null" -> Null
      [] cell.t = ty -> cell
      [] cell.t = "string" /\ ty = "long" ->
            IF cell.v \in NumericStrings THEN L(cell.v) ELSE Null
      [] cell.t = "string" /\ ty = "boolean" ->
            IF cell.v \in {"true", "false"} THEN B(cell.v) ELSE Null
      [] ty = "string" -> S(cell.v)
      [] OTHER -> Null

\* Lines 59-81: ApplyMapping on one row: the mapped fields, cast; nothing else.
ApplyMappingRow(row) ==
    LET used == {m \in Range(Mappings) : m[1] \in DOMAIN row}
    IN [f \in {m[3] : m \in used} |->
            LET m == CHOOSE m \in used : m[3] = f IN Cast(row[m[1]], m[4])]

ApplyMapping(parts) ==
    [p \in 1..Len(parts) |-> [i \in 1..Len(parts[p]) |-> ApplyMappingRow(parts[p][i])]]

\* Lines 87-91: ResolveChoice make_struct: a field that holds values of more
\* than one type in the frame becomes a struct of those types.
FieldTypes(parts, f) ==
    {row[f].t : row \in {r \in Range(Concat(parts)) : f \in DOMAIN r}} \ {"null"}

ResolveChoice(parts) ==
    LET resolve(row) ==
            [f \in DOMAIN row |->
                IF Cardinality(FieldTypes(parts, f)) > 1 /\ row[f].t # "null"
                THEN [t |-> "struct", v |-> row[f].t \o ":" \o row[f].v]
                ELSE row[f]]
    IN [p \in 1..Len(parts) |-> [i \in 1..Len(parts[p]) |-> resolve(parts[p][i])]]

\* Lines 97-100: DropNullFields removes the fields that are null in every
\* record of the frame; it removes no record.
NullFields(parts) ==
    {f \in UNION {DOMAIN r : r \in Range(Concat(parts))} : FieldTypes(parts, f) = {}}

DropNullFields(parts) ==
    LET gone == NullFields(parts)
        drop(row) == [f \in DOMAIN row \ gone |-> row[f]]
    IN [p \in 1..Len(parts) |-> [i \in 1..Len(parts[p]) |-> drop(parts[p][i])]]

\* Mutant of coalesce: only the first partition is kept.
coalesce_first(parts) == IF parts = <<>> THEN <<>> ELSE << Head(parts) >>

\* Line 107: coalesce(1).
coalesce(parts) == IF parts = <<>> THEN <<>> ELSE << Concat(parts) >>

\* Mutant of PartitionValue: the partition key is not found in the row.
PartitionValueKeyNotFound(row) == "__HIVE_DEFAULT_PARTITION__"

\* Lines 114-123: each row goes under the partition named by its values of
\* the partition keys.
PartitionValue(row) ==
    IF PARTITION_KEYS[1] \in DOMAIN row /\ row[PARTITION_KEYS[1]].t # "null"
    THEN row[PARTITION_KEYS[1]].v
    ELSE "__HIVE_DEFAULT_PARTITION__"

SinkKeys == Regions \cup {"__HIVE_DEFAULT_PARTITION__"}

RECURSIVE write_dynamic_frame(_, _)
write_dynamic_frame(rows, sink) ==
    IF rows = <<>> THEN sink
    ELSE LET k == PartitionValue(Head(rows))
         IN write_dynamic_frame(Tail(rows), [sink EXCEPT ![k] = Append(@, Head(rows))])

JobSteps == <<"read", "mapping", "resolve", "dropnull", "coalesce", "write", "commit">>

\* A step of the script completes: the script moves to the next line.
Completes(step, next) ==
    /\ fn = "transformation"
    /\ jpc = step
    /\ jpc' = next
    /\ jobTrace' = Append(jobTrace, step)
    /\ UNCHANGED <<fn, lambdaVars, rawTable, jobFailedAt, jobLog>>

\* Lines 23-30.
JobStart ==
    /\ fn = "transformation"
    /\ jpc = "init"
    /\ jpc' = "read"
    /\ UNCHANGED <<fn, lambdaVars, rawTable, raw_dyf, mapped_dyf, resolved_dyf, clean_dyf,
                   final_dyf, datasink, committed, jobTrace, jobFailedAt, jobLog>>

JobRead ==
    /\ Completes("read", "mapping")
    /\ raw_dyf' = from_catalog(rawTable, PREDICATE)
    /\ UNCHANGED <<mapped_dyf, resolved_dyf, clean_dyf, final_dyf, datasink, committed>>

JobMapping ==
    /\ Completes("mapping", "resolve")
    /\ mapped_dyf' = ApplyMapping(raw_dyf)
    /\ UNCHANGED <<raw_dyf, resolved_dyf, clean_dyf, final_dyf, datasink, committed>>

JobResolve ==
    /\ Completes("resolve", "dropnull")
    /\ resolved_dyf' = ResolveChoice(mapped_dyf)
    /\ UNCHANGED <<raw_dyf, mapped_dyf, clean_dyf, final_dyf, datasink, committed>>

JobDropNull ==
    /\ Completes("dropnull", "coalesce")
    /\ clean_dyf' = DropNullFields(resolved_dyf)
    /\ UNCHANGED <<raw_dyf, mapped_dyf, resolved_dyf, final_dyf, datasink, committed>>

JobCoalesce ==
    /\ Completes("coalesce", "write")
    /\ final_dyf' = coalesce(clean_dyf)
    /\ UNCHANGED <<raw_dyf, mapped_dyf, resolved_dyf, clean_dyf, datasink, committed>>

JobWrite ==
    /\ Completes("write", "commit")
    /\ datasink' = write_dynamic_frame(Concat(final_dyf), datasink)
    /\ UNCHANGED <<raw_dyf, mapped_dyf, resolved_dyf, clean_dyf, final_dyf, committed>>

\* Line 128.
JobCommit ==
    /\ Completes("commit", "committed")
    /\ committed' = TRUE
    /\ UNCHANGED <<raw_dyf, mapped_dyf, resolved_dyf, clean_dyf, final_dyf, datasink>>

\* A call of the script raises.  Nothing catches it: the script ends there,
\* having printed nothing.  A write that raises may have written some rows.
JobFail ==
    /\ fn = "transformation"
    /\ jpc \in Range(JobSteps)
    /\ jpc' = "failed"
    /\ jobFailedAt' = jpc
    /\ IF jpc = "write"
       THEN \E n \in 0..Len(Concat(final_dyf)) :
                datasink' = write_dynamic_frame(SubSeq(Concat(final_dyf), 1, n), datasink)
       ELSE datasink' = datasink
    /\ UNCHANGED <<fn, lambdaVars, rawTable, raw_dyf, mapped_dyf, resolved_dyf, clean_dyf,
                   final_dyf, committed, jobTrace, jobLog>>

JobInit ==
    /\ jpc = "init"
    /\ raw_dyf = <<>>
    /\ mapped_dyf = <<>>
    /\ resolved_dyf = <<>>
    /\ clean_dyf = <<>>
    /\ final_dyf = <<>>
    /\ datasink = [k \in SinkKeys |-> <<>>]
    /\ committed = FALSE
    /\ jobTrace = <<>>
    /\ jobFailedAt = ""
    /\ jobLog = <<>>

JobNext ==
    \/ JobStart
    \/ JobRead
    \/ JobMapping
    \/ JobResolve
    \/ JobDropNull
    \/ JobCoalesce
    \/ JobWrite
    \/ JobCommit
    \/ JobFail

LambdaInit ==
    /\ event = <<>>
    /\ bucket = ""
    /\ key = ""
    /\ lpc = "idle"
    /\ df_raw = EmptyFrame
    /\ df_flat = EmptyFrame
    /\ lambdaLog = <<>>
    /\ write_response = ""
    /\ raised = ""
    /\ calls = <<>>
    /\ readPaths = <<>>
    /\ writeArgs = <<>>
    /\ hist = <<>>

\* A behaviour runs one of the two functions, on any input of its pools; the
\* other function's stores stay empty.
Init ==
    /\ LambdaInit
    /\ JobInit
    /\ \/ /\ fn = "ingestion"
          /\ store \in StorePool
          /\ WRITE_MODE \in WriteModes
          /\ \E prior \in {EmptyFrame, PriorFrame} :
                target = prior.rows /\ catalog = prior.columns
          /\ rawTable = <<>>
       \/ /\ fn = "transformation"
          /\ store = [k \in StoreKeys |-> AbsentDoc]
          /\ WRITE_MODE = "append"
          /\ target = <<>>
          /\ catalog = {}
          /\ rawTable \in SeqsUpTo(RowPool, MaxRows)
    /\ preTarget = target
    /\ preCatalog = catalog

LambdaNext ==
    \/ \E ev \in EventPool : Invoke(ev)
    \/ ReadOk
    \/ ReadFail
    \/ FlattenOk
    \/ FlattenFail
    \/ WriteOk
    \/ WriteFail

Next == LambdaNext \/ JobNext

Spec == Init /\ [][Next]_vars

(***************************************************************************)
(* The claims.                                                             *)
(***************************************************************************)
Did(op, ok) == Call(op, ok) \in Range(calls)

\* The flat columns of an item of depth two, and what a flat row must hold
\* for it, written out without the recursion of nested_to_record.
ItemColumns(item) ==
    UNION {IF e.t = "s" THEN {e.k} ELSE {e.k \o "." \o q.k : q \in Range(e.d)} :
            e \in Range(item)}

RowHoldsItem(row, item, cols) ==
    /\ DOMAIN row = cols
    /\ \A e \in Range(item) :
          IF e.t = "s" THEN row[e.k] = e.v
          ELSE \A q \in Range(e.d) : q.t = "s" /\ row[e.k \o "." \o q.k] = q.v
    /\ \A c \in cols \ ItemColumns(item) : row[c] = "NaN"

FrameHoldsItems(df, items) ==
    /\ Len(df.rows) = Len(items)
    /\ df.columns = UNION {ItemColumns(items[i]) : i \in 1..Len(items)}
    /\ \A i \in 1..Len(items) : RowHoldsItem(df.rows[i], items[i], df.columns)

\* C1: a document whose "items" array has N elements flattens to exactly N
\* flat rows, row i holding item i with its nested keys as parent.child
\* columns, and the frame handed to the write call is that frame.
C1_FlattenKeepsEveryItem ==
    /\ Did("flatten", TRUE) => FrameHoldsItems(df_flat, ObjectAt(bucket, key).arr)
    /\ \A j \in 1..Len(writeArgs) :
          FrameHoldsItems(writeArgs[j].df, ObjectAt(bucket, key).arr)

C1_Witness ==
    /\ lpc = "returned"
    /\ Len(writeArgs) = 1
    /\ Len(writeArgs[1].df.rows) = 2
    /\ {"snippet.title", "snippet.assignable", "kind"} \subseteq writeArgs[1].df.columns
    /\ writeArgs[1].df.rows[1]["snippet.title"] = "Film"
    /\ writeArgs[1].df.rows[1]["kind"] = "NaN"
    /\ writeArgs[1].df.rows[2]["snippet.title"] = "Music"
    /\ writeArgs[1].df.rows[2]["snippet.assignable"] = "NaN"

JobFrames == <<raw_dyf, mapped_dyf, resolved_dyf, clean_dyf, final_dyf>>

RegionIsPermitted(row) ==
    /\ "region" \in DOMAIN row
    /\ row["region"] \in {S("ca"), S("gb"), S("us")}

\* C2: no row of a region other than ca, gb, us is ever held by a stage of
\* the job after the read, or written by it.
C2_OnlyPermittedRegions ==
    /\ \A i \in 1..Len(JobFrames) : \A p \in 1..Len(JobFrames[i]) :
          \A n \in 1..Len(JobFrames[i][p]) : RegionIsPermitted(JobFrames[i][p][n])
    /\ \A k \in SinkKeys : \A n \in 1..Len(datasink[k]) : RegionIsPermitted(datasink[k][n])

C2_Witness ==
    /\ committed
    /\ \E i \in 1..Len(rawTable) : RegionOf(rawTable[i]) = "de"
    /\ \E i \in 1..Len(rawTable) : RegionOf(rawTable[i]) = "us"
    /\ datasink["us"] # <<>>

TwiceOnSameObject ==
    /\ Len(hist) = 2
    /\ hist[1].ok /\ hist[2].ok
    /\ hist[1].key = hist[2].key
    /\ lpc = "returned"

\* C3: after two invocations on the same object that both returned, the
\* cleansed dataset holds, under "overwrite", the flattened rows of the
\* object once and nothing else, and under "append", what it held before
\* the first invocation followed by those rows twice.
C3_OverwriteOnceAppendTwice ==
    TwiceOnSameObject =>
        /\ FrameHoldsItems(df_flat, ObjectAt(bucket, key).arr)
        /\ WRITE_MODE = "overwrite" => target = df_flat.rows
        /\ WRITE_MODE = "append" =>
              target = hist[1].before \o df_flat.rows \o df_flat.rows

C3_Witness ==
    /\ TwiceOnSameObject
    /\ WRITE_MODE = "overwrite"
    /\ hist[1].before # <<>>
    /\ Len(target) = 2
    /\ target[1] # target[2]

LambdaFailureRaised ==
    /\ (\E c \in Range(calls) : ~c.ok) =>
          /\ lpc = "raised"
          /\ raised # ""
          /\ write_response = ""
          /\ Len(lambdaLog) = 2
          /\ lambdaLog[1] = "Exception encountered while processing " \o key
                                \o " from bucket " \o bucket
          /\ lambdaLog[2] = raised
    /\ lpc = "returned" =>
          /\ \A c \in Range(calls) : c.ok
          /\ raised = ""

\* C4 as stated: in both functions a failed step logs a diagnostic line
\* before the failure reaches the platform.
C4_BothLogAndRaise ==
    /\ LambdaFailureRaised
    /\ jobFailedAt # "" => jpc = "failed" /\ ~committed /\ jobLog # <<>>

\* C4 amended: lambda_handler logs two lines and re-raises whenever one of
\* its steps fails, and never returns normally then; the job script catches
\* nothing and prints nothing: a failed step ends it, uncommitted.
C4_LambdaLogsJobPropagates ==
    /\ LambdaFailureRaised
    /\ jobFailedAt # "" => jpc = "failed" /\ ~committed /\ jobLog = <<>>

C4_Witness ==
    /\ lpc = "raised"
    /\ Did("write", FALSE)
    /\ raised = "ClientError"
    /\ Len(lambdaLog) = 2

\* C5: every row written by the job has a non-null value in every mapped
\* field (a row with a null mapped field is absent from the output).
C5_NoNullInOutput ==
    \A k \in SinkKeys : \A n \in 1..Len(datasink[k]) :
        \A m \in 1..Len(Mappings) :
            /\ Mappings[m][3] \in DOMAIN datasink[k][n]
            /\ datasink[k][n][Mappings[m][3]].t # "null"

MappedNames ==
    {"video_id", "trending_date", "title", "channel_title", "category_id",
     "publish_time", "tags", "views", "likes", "dislikes", "comment_count",
     "thumbnail_link", "comments_disabled", "ratings_disabled",
     "video_error_or_removed", "description", "region"}

DeclaredType(f) ==
    CASE f \in {"category_id", "views", "likes", "dislikes", "comment_count"} -> "long"
      [] f \in {"comments_disabled", "ratings_disabled", "video_error_or_removed"}
            -> "boolean"
      [] OTHER -> "string"

\* C6: every written row has only fields among the 17 mapped names, and
\* every value it holds has the declared type of its field: the five counts
\* are integers, the three flags booleans, the rest strings.
C6_OutputMatchesTypeMapping ==
    \A k \in SinkKeys : \A n \in 1..Len(datasink[k]) :
        /\ DOMAIN datasink[k][n] \subseteq MappedNames
        /\ \A f \in DOMAIN datasink[k][n] :
              datasink[k][n][f].t \in {DeclaredType(f), "null"}

C6_Witness ==
    /\ committed
    /\ \E i \in 1..Len(rawTable) :
          /\ "extra" \in DOMAIN rawTable[i]
          /\ rawTable[i]["views"].t = "string"
    /\ \E n \in 1..Len(datasink["gb"]) : datasink["gb"][n]["views"] = L("12")

\* C7: every written row lies under the partition named by its own region,
\* and only the partitions ca, gb and us receive rows.
C7_PartitionedByRegion ==
    \A k \in SinkKeys :
        /\ k \notin {"ca", "gb", "us"} => datasink[k] = <<>>
        /\ \A n \in 1..Len(datasink[k]) :
              "region" \in DOMAIN datasink[k][n] /\ datasink[k][n]["region"] = S(k)

C7_Witness ==
    /\ committed
    /\ Cardinality({k \in SinkKeys : datasink[k] # <<>>}) >= 2

IsPrefix(s, t) == Len(s) <= Len(t) /\ s = SubSeq(t, 1, Len(s))

\* C8: an invocation issues at most one read and one write, in the order
\* read, flatten, write, each only after the one before succeeded; when the
\* read or the flatten fails no write is issued and the cleansed dataset and
\* the catalog are as they were when the invocation began.
C8_OneReadOneWriteInOrder ==
    /\ Len(readPaths) <= 1
    /\ Len(writeArgs) <= 1
    /\ IsPrefix([i \in 1..Len(calls) |-> calls[i].op], <<"read", "flatten", "write">>)
    /\ \A i \in 1..Len(calls) : i < Len(calls) => calls[i].ok
    /\ Len(readPaths) = Cardinality({i \in 1..Len(calls) : calls[i].op = "read"})
    /\ Len(writeArgs) = Cardinality({i \in 1..Len(calls) : calls[i].op = "write"})
    /\ (Did("read", FALSE) \/ Did("flatten", FALSE)) =>
          /\ writeArgs = <<>>
          /\ target = preTarget
          /\ catalog = preCatalog

C8_Witness ==
    /\ lpc = "raised"
    /\ Did("flatten", FALSE)
    /\ target # <<>>
    /\ Len(hist) = 2

RowBag(rows) ==
    [r \in Range(rows) |-> Cardinality({i \in 1..Len(rows) : rows[i] = r})]

StepIndex(step) == CHOOSE i \in 1..Len(JobSteps) : JobSteps[i] = step

\* C9: the job's steps run once each in the order read, mapping, choice
\* resolution, null-field drop, coalesce, write, commit; the job is committed
\* only when all of them have completed, never after a step failed; nothing
\* is written before the write step is reached; coalesce leaves at most one
\* partition holding the same multiset of rows.
C9_StepsInOrderCommitLast ==
    /\ IsPrefix(jobTrace, JobSteps)
    /\ committed <=> jobTrace = JobSteps
    /\ jobFailedAt # "" =>
          /\ ~committed
          /\ jpc = "failed"
          /\ Len(jobTrace) = StepIndex(jobFailedAt) - 1
    /\ (Len(jobTrace) < StepIndex("write") /\ jobFailedAt # "write") =>
          \A k \in SinkKeys : datasink[k] = <<>>
    /\ Len(jobTrace) >= StepIndex("coalesce") =>
          /\ Len(final_dyf) <= 1
          /\ RowBag(Concat(final_dyf)) = RowBag(Concat(clean_dyf))

C9_Witness ==
    /\ committed
    /\ Len(clean_dyf) = 2
    /\ Len(final_dyf) = 1
    /\ Len(final_dyf[1]) = 3

\* The object a record names: its bucket and its key with '+' read as a
\* space and %2B as '+'.
NamedKey(rec) ==
    CASE rec.key = <<"a", "+", "b">>   -> "a b"
      [] rec.key = <<"a", "%2B", "b">> -> "a+b"

NamedPath(rec) == "s3://" \o rec.bucket \o "/" \o NamedKey(rec)

\* C10: an invocation reads only the object named by the first record of
\* its event, and the frame it writes holds the rows of that object alone;
\* an object named only by a later record is never read.
C10_OnlyFirstRecord ==
    event # <<>> =>
        /\ \A i \in 1..Len(readPaths) : readPaths[i] = NamedPath(event[1])
        /\ \A r \in 2..Len(event) :
              NamedPath(event[r]) # NamedPath(event[1]) =>
                  \A i \in 1..Len(readPaths) : readPaths[i] # NamedPath(event[r])
        /\ \A j \in 1..Len(writeArgs) :
              FrameHoldsItems(writeArgs[j].df,
                              ObjectAt(event[1].bucket, NamedKey(event[1])).arr)

C10_Witness ==
    /\ lpc = "returned"
    /\ Len(event) = 2
    /\ NamedKey(event[1]) = "a b"
    /\ NamedKey(event[2]) = "a+b"
    /\ store["a b"] # store["a+b"]
    /\ Len(writeArgs) = 1

====
